---------------------------- MODULE Spec2Model ----------------------------
(***************************************************************************)
(* A model of pkg/engine/events.go: the Update entry point, the update     *)
(* orchestration function and the updateActions callbacks                  *)
(* (OnResourceStepPre, OnResourceStepPost, OnResourceOutputs) that the     *)
(* plan walker invokes around every step of a deployment.                  *)
(*                                                                         *)
(* Every statement of a callback that touches state shared between step    *)
(* goroutines (MapLock, Seen, Steps, Ops, MaybeCorrupt, the cancellation   *)
(* signal, the event stream, the snapshot manager) is one atomic action,   *)
(* so that all interleavings of concurrently running callbacks are         *)
(* explored.                                                               *)
(***************************************************************************)
EXTENDS Integers, Sequences, FiniteSets, TLC

\* ------------------------------------------------------------------ bounds
\* Number of steps the plan holds.
NumSteps == 2
\* Largest number of init errors an old resource state records.
MaxInitErrors == 2
\* UpdateOptions.Parallel of the general specification.
MaxParallel == 2
\* Number of OnResourceOutputs calls the program causes in one update.
MaxOutputs == 1

\* ----------------------------------------------------------- value domains
\* The URN of step s is s itself (the planner hands out one step per URN);
\* EmptyURN is resource.URN("").
EmptyURN == 0
\* No goroutine holds MapLock.
NoHolder == 0
\* The goroutine that runs Update, as a sender of events.
UpdateCall == 0

\* deploy.StepOp values the model distinguishes.
OpSame == "same"
OpCreate == "create"
OpUpdate == "update"
OpDelete == "delete"
OpKinds == {OpSame, OpCreate, OpUpdate, OpDelete}

\* resource.Status
StatusOK == "OK"
StatusPartialFailure == "PartialFailure"
StatusUnknown == "Unknown"
Statuses == {StatusOK, StatusPartialFailure, StatusUnknown}

\* The recorded init errors of an old state: n error strings, in order.
InitErrorsOf(n) == [i \in 1..n |-> i]

\* What the callbacks read of a step: step.Op(), step.Logical(),
\* step.Res().Custom, isDefaultProviderStep(step), step.Old().InitErrors.
StepAttrs ==
    [op : OpKinds, logical : BOOLEAN, custom : BOOLEAN,
     defaultProvider : BOOLEAN, initErrors : 0..MaxInitErrors]

\* The steps the source yields in the general specification: a resource
\* created, a default provider re-affirmed whose initialization failed, a
\* component updated whose old state records init errors, and the delete
\* half of a replacement (not Logical).
PlanSteps ==
    {a \in StepAttrs :
        \/ a.op = OpCreate /\ a.logical /\ a.custom /\ ~a.defaultProvider
              /\ a.initErrors = 0
        \/ a.op = OpSame /\ a.logical /\ a.custom /\ a.defaultProvider
              /\ a.initErrors = MaxInitErrors
        \/ a.op = OpUpdate /\ a.logical /\ ~a.custom /\ ~a.defaultProvider
              /\ a.initErrors = MaxInitErrors
        \/ a.op = OpDelete /\ ~a.logical /\ a.custom /\ ~a.defaultProvider
              /\ a.initErrors = 0}

NoAttr == [op |-> OpSame, logical |-> FALSE, custom |-> FALSE,
           defaultProvider |-> FALSE, initErrors |-> 0]
NoResult == [status |-> StatusOK, err |-> FALSE]

\* ResourceChanges: a Go map reads 0 for an absent key, so the map is a
\* total function with 0 for the kinds never counted; a nil map is isNil.
EmptyOps == [k \in OpKinds |-> 0]
NilChanges == [isNil |-> TRUE, ops |-> EmptyOps]
ChangesOf(ops) == [isNil |-> FALSE, ops |-> ops]

\* ---------------------------------------------------------------- events
\* An event sent on ctx.Events: its type and the payload fields the model
\* keeps (the URN it is about, the problems a warning lists, the summary's
\* flag and changes).
Event(type, urn) ==
    [type |-> type, urn |-> urn, problems |-> << >>,
     corrupt |-> FALSE, changes |-> NilChanges]
cancelEvent == Event("cancel", EmptyURN)
preludeEvent == Event("prelude", EmptyURN)
resourcePreEvent(s) == Event("resource-pre", s)
resourceOutputsEvent(s) == Event("resource-outputs", s)
resourceOperationFailedEvent(s) == Event("resource-operation-failed", s)
updateSummaryEvent(maybeCorrupt, changes) ==
    [Event("update-summary", EmptyURN)
        EXCEPT !.corrupt = maybeCorrupt, !.changes = changes]
\* diag.GetPlanApplyFailedError(errorURN), sent by Opts.Diag.Errorf.
diagErrorEvent(urn) == Event("diag-error", urn)
\* diagWarningEvent, were the problems numbered from 0 (i for i+1, line 320).
diagWarningFromZero(s, initErrors) ==
    [Event("diag-warning", s)
        EXCEPT !.problems = [i \in 1..Len(initErrors) |-> <<i - 1, initErrors[i]>>]]

\* The warning of OnResourceStepPre: one "Problem #i err" line per init error.
diagWarningEvent(s, initErrors) ==
    [Event("diag-warning", s)
        EXCEPT !.problems = [i \in 1..Len(initErrors) |-> <<i, initErrors[i]>>]]

VARIABLES
    upc,          \* position of the Update/update call
    returned,     \* what Update returned
    uNil,         \* Update's argument u is nil
    ctxNil,       \* Update's argument ctx is nil
    dryRun,       \* Update's argument dryRun
    reportDefaultProviderSteps,   \* opts.reportDefaultProviderSteps
    Parallel,     \* opts.Parallel
    source,       \* the plan: for each step, the steps the source may yield
    cancelled,    \* Context.Cancel.TerminateErr() != nil
    events,       \* ctx.Events: what each goroutine has sent, in its order
    Seen,         \* updateActions.Seen: the URNs recorded
    Steps,        \* updateActions.Steps
    Ops,          \* updateActions.Ops
    MapLock,      \* the step holding updateActions.MapLock, or NoHolder
    MaybeCorrupt, \* updateActions.MaybeCorrupt
    pc,           \* position of each step's goroutine
    attr,         \* each dispatched step's attributes
    result,       \* each step's provider result (status, err)
    sawCancel,    \* each post callback's reading of TerminateErr() != nil
    tmp,          \* each post callback's reading of Steps and Ops[stepop]
    ret,          \* each step's callback return values
    begins,       \* the steps BeginMutation was called for
    ends,         \* SnapshotMutation.End calls, in order
    registered,   \* RegisterResourceOutputs calls
    applied,      \* the steps the provider was called for
    counted,      \* the steps whose post incremented Steps and Ops
    flagged,      \* the steps whose post set MaybeCorrupt
    walk          \* the walker: its state and what Walk returned

inputVars == <<uNil, ctxNil, dryRun, reportDefaultProviderSteps, Parallel, source>>
updVars == <<upc, returned>>
actsVars == <<Seen, Steps, Ops, MapLock, MaybeCorrupt>>
localVars == <<attr, result, sawCancel, tmp>>
ghostVars == <<applied, counted, flagged>>
storeVars == <<begins, ends, registered>>

vars == <<inputVars, updVars, actsVars, localVars, ghostVars, storeVars,
          cancelled, events, pc, ret, walk>>

\* The steps of the plan.
StepIds == 1..Len(source)

\* What Update returned: the ResourceChanges and the error, or a panic; via
\* names the return statement taken.
NoReturn ==
    [done |-> FALSE, via |-> "none", changes |-> NilChanges, err |-> FALSE,
     panic |-> FALSE]
Returned(via, changes, err) ==
    [done |-> TRUE, via |-> via, changes |-> changes, err |-> err, panic |-> FALSE]
Panicked(via) ==
    [done |-> TRUE, via |-> via, changes |-> NilChanges, err |-> FALSE,
     panic |-> TRUE]

NoRet == [pre |-> "none", post |-> "none", outputs |-> "none"]
NoTmp == [steps |-> 0, ops |-> 0]
WalkIdle == [state |-> "idle", failed |-> FALSE, summaryNil |-> TRUE, err |-> FALSE]

\* The cancel event has been sent on ctx.Events.
CancelSent == \E i \in 1..Len(events[UpdateCall]) : events[UpdateCall][i].type = "cancel"

\* ctx.Events <- e, by goroutine g. The stream is kept per sender: the order
\* of two goroutines' events on the channel is the order of their sends.
Send(g, e) ==
    events' = [events EXCEPT ![g] = Append(@, e)]

\* newUpdateActions: Ops and Seen empty, Steps 0, MaybeCorrupt false.
newUpdateActions ==
    /\ Seen = {}
    /\ Steps = 0
    /\ Ops = EmptyOps
    /\ MapLock = NoHolder
    /\ MaybeCorrupt = FALSE

\* The state before Update is called, for a plan whose source is src and a
\* walker that keeps at most par steps in flight.
InitWith(src, par) ==
    /\ upc = "start"
    /\ returned = NoReturn
    /\ source = src
    /\ Parallel = par
    /\ cancelled = FALSE
    /\ events = [g \in {UpdateCall} \cup (1..Len(src)) |-> << >>]
    /\ newUpdateActions
    /\ pc = [s \in 1..Len(src) |-> "idle"]
    /\ attr = [s \in 1..Len(src) |-> NoAttr]
    /\ result = [s \in 1..Len(src) |-> NoResult]
    /\ sawCancel = [s \in 1..Len(src) |-> FALSE]
    /\ tmp = [s \in 1..Len(src) |-> NoTmp]
    /\ ret = [s \in 1..Len(src) |-> NoRet]
    /\ begins = {}
    /\ ends = << >>
    /\ registered = {}
    /\ applied = {}
    /\ counted = {}
    /\ flagged = {}
    /\ walk = WalkIdle

Init ==
    /\ uNil \in BOOLEAN
    /\ ctxNil \in BOOLEAN
    /\ dryRun \in BOOLEAN
    /\ reportDefaultProviderSteps \in BOOLEAN
    /\ InitWith([s \in 1..NumSteps |-> PlanSteps], MaxParallel)

\* ------------------------------------------------- Update and update
\* UpdateRequire, were the context not checked (line 161 missing).
UpdateRequiresUpdateOnly ==
    /\ upc = "start"
    /\ IF uNil
         THEN /\ upc' = "panicked"
              /\ returned' = Panicked("Require")
         ELSE /\ upc' = "planctx"
              /\ UNCHANGED returned
    /\ UNCHANGED <<inputVars, actsVars, localVars, ghostVars, storeVars,
                   cancelled, events, pc, ret, walk>>

\* Update, lines 160-161: contract.Require panics on a nil argument, before
\* the cancel event is deferred.
UpdateRequire ==
    /\ upc = "start"
    /\ IF uNil \/ ctxNil
         THEN /\ upc' = "panicked"
              /\ returned' = Panicked("Require")
         ELSE /\ upc' = "planctx"
              /\ UNCHANGED returned
    /\ UNCHANGED <<inputVars, actsVars, localVars, ghostVars, storeVars,
                   cancelled, events, pc, ret, walk>>

\* Return, were the cancel event sent on the success path instead of deferred.
ReturnSendsOnSuccessOnly(via, changes, err) ==
    /\ upc' = IF err THEN "done" ELSE "deferred"
    /\ returned' = Returned(via, changes, err)

\* A return of Update or update: the deferred functions run next.
Return(via, changes, err) ==
    /\ upc' = "deferred"
    /\ returned' = Returned(via, changes, err)

\* Update, lines 165-168: newPlanContext succeeds or fails.
UpdatePlanContext ==
    /\ upc = "planctx"
    /\ \E failed \in BOOLEAN :
         IF failed
           THEN Return("newPlanContext", NilChanges, TRUE)
           ELSE /\ upc' = "plan"
                /\ UNCHANGED returned
    /\ UNCHANGED <<inputVars, actsVars, localVars, ghostVars, storeVars,
                   cancelled, events, pc, ret, walk>>

\* update, lines 220-226: plan fails, yields no result, or yields a result.
updatePlan ==
    /\ upc = "plan"
    /\ \E outcome \in {"error", "nil", "result"} :
         CASE outcome = "error" -> Return("plan", NilChanges, TRUE)
           [] outcome = "nil" -> Return("noResult", NilChanges, FALSE)
           [] outcome = "result" -> /\ upc' = "chdir"
                                    /\ UNCHANGED returned
    /\ UNCHANGED <<inputVars, actsVars, localVars, ghostVars, storeVars,
                   cancelled, events, pc, ret, walk>>

\* DryRunBranch, were the deployment carried out whatever dryRun says.
NeverDryRun(dry) == FALSE

\* update, line 236: the branch on dryRun.
DryRunBranch(dry) == dry

\* update, lines 230-236: result.Chdir, then the branch on dryRun.
updateChdir ==
    /\ upc = "chdir"
    /\ \E failed \in BOOLEAN :
         IF failed
           THEN Return("Chdir", NilChanges, TRUE)
           ELSE /\ upc' = IF DryRunBranch(dryRun) THEN "printPlan" ELSE "prelude"
                /\ UNCHANGED returned
    /\ UNCHANGED <<inputVars, actsVars, localVars, ghostVars, storeVars,
                   cancelled, events, pc, ret, walk>>

\* printPlan reports the plan's shape: it returns the planned changes or an
\* error, calls no provider, writes no checkpoint and sends no prelude or
\* update-summary event.
printPlanResults ==
    {[changes |-> NilChanges, err |-> TRUE]} \cup
    {[changes |-> ChangesOf(planned), err |-> FALSE] :
        planned \in {EmptyOps, [EmptyOps EXCEPT ![OpCreate] = 1]}}

\* update, lines 238-241 and 266: the dry run returns what printPlan returned.
updatePrintPlan ==
    /\ upc = "printPlan"
    /\ \E r \in printPlanResults : Return("printPlan", r.changes, r.err)
    /\ UNCHANGED <<inputVars, actsVars, localVars, ghostVars, storeVars,
                   cancelled, events, pc, ret, walk>>

\* update, lines 244-249: the prelude event, newUpdateActions, and Walk starts.
updatePrelude ==
    /\ upc = "prelude"
    /\ Send(UpdateCall, preludeEvent)
    /\ upc' = "walk"
    /\ walk' = [walk EXCEPT !.state = "running"]
    /\ UNCHANGED <<inputVars, returned, actsVars, localVars, ghostVars, storeVars,
                   cancelled, pc, ret>>

\* NoSummary, were the summary dropped on every walk error.
AnyWalkError(w) == w.err

\* update, line 250: Walk returned an error and no summary.
NoSummary(w) == w.err /\ w.summaryNil

\* HasChanges, lines 150-155: the sum of the counts of the kinds in `kinds`
\* other than Same.
RECURSIVE SumNonSame(_, _)
SumNonSame(ops, kinds) ==
    IF kinds = {} THEN 0
    ELSE LET op == CHOOSE k \in kinds : TRUE
         IN (IF op # OpSame THEN ops[op] ELSE 0) + SumNonSame(ops, kinds \ {op})

\* HasChanges, were the kind of the counts not looked at.
HasAnyCount(changes) ==
    \E k \in (IF changes.isNil THEN {} ELSE OpKinds) : changes.ops[k] > 0

\* ResourceChanges.HasChanges, lines 149-157; a nil map has no key.
HasChanges(changes) ==
    SumNonSame(changes.ops, IF changes.isNil THEN {} ELSE OpKinds) > 0

\* update, line 257: the changes update returns with a summary.
SummaryChanges(ops) == ChangesOf(ops)

\* update, lines 250-262, once Walk has returned.
updateSummary ==
    /\ upc = "walk"
    /\ walk.state = "returned"
    /\ IF NoSummary(walk)
         THEN /\ Return("noSummary", NilChanges, TRUE)
              /\ UNCHANGED events
         ELSE IF walk.summaryNil
           THEN \* contract.Assert(summary != nil) panics; the defers still run
                /\ upc' = "deferred"
                /\ returned' = Panicked("Assert")
                /\ UNCHANGED events
           ELSE /\ Send(UpdateCall,
                        updateSummaryEvent(MaybeCorrupt, SummaryChanges(Ops)))
                /\ Return("summary", SummaryChanges(Ops), walk.err)
    /\ UNCHANGED <<inputVars, actsVars, localVars, ghostVars, storeVars,
                   cancelled, pc, ret, walk>>

\* Update, line 163: the deferred send of the cancel event.
UpdateDeferred ==
    /\ upc = "deferred"
    /\ Send(UpdateCall, cancelEvent)
    /\ upc' = "done"
    /\ UNCHANGED <<inputVars, returned, actsVars, localVars, ghostVars, storeVars,
                   cancelled, pc, ret, walk>>

\* ------------------------------------------------------ updateActions
\* ReportStep, were every step reported whatever the option says.
AlwaysReported(report, a) == TRUE

\* Lines 308, 343, 391: whether the step is reported on the event stream.
ReportStep(report, a) == report \/ ~a.defaultProvider

\* WarnInitErrors, were the operation of the step not looked at.
WarnOnAnyOp(a) == a.initErrors > 0

\* Line 312: the step re-affirms a resource whose initialization failed.
WarnInitErrors(a) == a.op = OpSame /\ a.initErrors > 0

\* KeepNewState, were the new state kept after a success only.
KeepOnlyWithoutError(status, err) == ~err

\* Line 382: the keep argument of SnapshotMutation.End.
KeepNewState(status, err) == ~err \/ status = StatusPartialFailure

\* MarksCorrupt, were the status not looked at.
MarksCorruptOnAnyError(status, err) == err

\* Lines 347-348: the result marks the checkpoint as possibly corrupt.
MarksCorrupt(status, err) == err /\ status = StatusUnknown

\* Terminated, were the cancellation signal not consulted.
NeverTerminated(c) == FALSE

\* Line 339: the callback's reading of Context.Cancel.TerminateErr() != nil.
Terminated(c) == c

\* assertSeen(acts.Seen, step), lines 334 and 387.
assertSeen(seen, s) == s \in seen

Goto(s, to) == pc' = [pc EXCEPT ![s] = to]

\* MapLock.Lock() by step s, from position `from` to position `to`.
Lock(s, from, to) ==
    /\ pc[s] = from
    /\ MapLock = NoHolder
    /\ MapLock' = s
    /\ Goto(s, to)

\* OnResourceStepPre, line 303.
PreLock(s) ==
    /\ Lock(s, "pre_lock", "pre_seen")
    /\ UNCHANGED <<inputVars, updVars, Seen, Steps, Ops, MaybeCorrupt, localVars,
                   ghostVars, storeVars, cancelled, events, ret, walk>>

\* PreSeen, were MapLock not unlocked (line 305 missing).
PreSeenKeepsLock(s) ==
    /\ pc[s] = "pre_seen"
    /\ Seen' = Seen \cup {s}
    /\ Goto(s, IF ReportStep(reportDefaultProviderSteps, attr[s])
                 THEN "pre_event" ELSE "pre_begin")
    /\ UNCHANGED <<inputVars, updVars, Steps, Ops, MapLock, MaybeCorrupt, localVars,
                   ghostVars, storeVars, cancelled, events, ret, walk>>

\* PreSeen, were the step not recorded (line 304 missing).
PreSeenForgets(s) ==
    /\ pc[s] = "pre_seen"
    /\ MapLock' = NoHolder
    /\ Goto(s, IF ReportStep(reportDefaultProviderSteps, attr[s])
                 THEN "pre_event" ELSE "pre_begin")
    /\ UNCHANGED <<inputVars, updVars, Seen, Steps, Ops, MaybeCorrupt, localVars,
                   ghostVars, storeVars, cancelled, events, ret, walk>>

\* OnResourceStepPre, lines 304-308: record the step, unlock, branch.
PreSeen(s) ==
    /\ pc[s] = "pre_seen"
    /\ Seen' = Seen \cup {s}
    /\ MapLock' = NoHolder
    /\ Goto(s, IF ReportStep(reportDefaultProviderSteps, attr[s])
                 THEN "pre_event" ELSE "pre_begin")
    /\ UNCHANGED <<inputVars, updVars, Steps, Ops, MaybeCorrupt, localVars,
                   ghostVars, storeVars, cancelled, events, ret, walk>>

\* PreEvent, were the resource-pre event not sent.
PreEventOmitted(s) ==
    /\ pc[s] = "pre_event"
    /\ Goto(s, IF WarnInitErrors(attr[s]) THEN "pre_warn" ELSE "pre_begin")
    /\ UNCHANGED <<inputVars, updVars, actsVars, localVars, ghostVars, storeVars,
                   cancelled, events, ret, walk>>

\* OnResourceStepPre, lines 309-312: the resource-pre event.
PreEvent(s) ==
    /\ pc[s] = "pre_event"
    /\ Send(s, resourcePreEvent(s))
    /\ Goto(s, IF WarnInitErrors(attr[s]) THEN "pre_warn" ELSE "pre_begin")
    /\ UNCHANGED <<inputVars, updVars, actsVars, localVars, ghostVars, storeVars,
                   cancelled, ret, walk>>

\* OnResourceStepPre, lines 313-323: the initialization-failure warning.
PreWarn(s) ==
    /\ pc[s] = "pre_warn"
    /\ Send(s, diagWarningEvent(s, InitErrorsOf(attr[s].initErrors)))
    /\ Goto(s, "pre_begin")
    /\ UNCHANGED <<inputVars, updVars, actsVars, localVars, ghostVars, storeVars,
                   cancelled, ret, walk>>

\* OnResourceStepPre, line 328: BeginMutation returns a handle or an error;
\* on an error the walker makes no provider call for the step and fails.
PreBegin(s) ==
    /\ pc[s] = "pre_begin"
    /\ begins' = begins \cup {s}
    /\ \E failed \in BOOLEAN :
         /\ ret' = [ret EXCEPT ![s].pre = IF failed THEN "err" ELSE "handle"]
         /\ Goto(s, IF failed THEN "done" ELSE "apply")
         /\ walk' = [walk EXCEPT !.failed = @ \/ failed]
    /\ UNCHANGED <<inputVars, updVars, actsVars, localVars, ghostVars,
                   ends, registered, cancelled, events>>

\* OnResourceStepPost, line 333.
PostLock(s) ==
    /\ Lock(s, "post_lock", "post_assert")
    /\ UNCHANGED <<inputVars, updVars, Seen, Steps, Ops, MaybeCorrupt, localVars,
                   ghostVars, storeVars, cancelled, events, ret, walk>>

\* OnResourceStepPost, lines 334-335: assertSeen panics on an unseen URN.
PostAssert(s) ==
    /\ pc[s] = "post_assert"
    /\ IF assertSeen(Seen, s)
         THEN /\ MapLock' = NoHolder
              /\ Goto(s, "post_check")
         ELSE /\ Goto(s, "panicked")
              /\ UNCHANGED MapLock
    /\ UNCHANGED <<inputVars, updVars, Seen, Steps, Ops, MaybeCorrupt, localVars,
                   ghostVars, storeVars, cancelled, events, ret, walk>>

\* Where OnResourceStepPost goes after its cancellation check, lines 343-382.
AfterCheck(report, a, r) ==
    IF r.err
      THEN IF MarksCorrupt(r.status, r.err) THEN "post_corrupt" ELSE "post_diag"
      ELSE IF ReportStep(report, a)
        THEN IF a.logical THEN "post_count_lock"
             ELSE IF a.custom THEN "post_outputs" ELSE "post_end"
        ELSE "post_end"

\* PostCheck, were the return of line 340 missing.
PostCheckNoReturn(s) ==
    /\ pc[s] = "post_check"
    /\ sawCancel' = [sawCancel EXCEPT ![s] = Terminated(cancelled)]
    /\ Goto(s, AfterCheck(reportDefaultProviderSteps, attr[s], result[s]))
    /\ UNCHANGED <<inputVars, updVars, actsVars, attr, result, tmp, ghostVars,
                   storeVars, cancelled, events, ret, walk>>

\* OnResourceStepPost, lines 339-347: the cancellation check and the branch
\* on the step's result.
PostCheck(s) ==
    /\ pc[s] = "post_check"
    /\ sawCancel' = [sawCancel EXCEPT ![s] = Terminated(cancelled)]
    /\ IF Terminated(cancelled)
         THEN /\ ret' = [ret EXCEPT ![s].post = "nil"]
              /\ Goto(s, "posted")
         ELSE /\ Goto(s, AfterCheck(reportDefaultProviderSteps, attr[s], result[s]))
              /\ UNCHANGED ret
    /\ UNCHANGED <<inputVars, updVars, actsVars, attr, result, tmp, ghostVars,
                   storeVars, cancelled, events, walk>>

\* OnResourceStepPost, lines 348-350: acts.MaybeCorrupt = true. The write is
\* not under MapLock; every racing write stores true.
PostCorrupt(s) ==
    /\ pc[s] = "post_corrupt"
    /\ MaybeCorrupt' = TRUE
    /\ flagged' = flagged \cup {s}
    /\ Goto(s, "post_diag")
    /\ UNCHANGED <<inputVars, updVars, Seen, Steps, Ops, MapLock, localVars,
                   applied, counted, storeVars, cancelled, events, ret, walk>>

\* PostDiag, were the flag assigned the test of line 348 on every error.
PostDiagAssignsFlag(s) ==
    /\ pc[s] = "post_diag"
    /\ MaybeCorrupt' = MarksCorrupt(result[s].status, result[s].err)
    /\ LET reportStep == ReportStep(reportDefaultProviderSteps, attr[s])
           errorURN == IF reportStep THEN s ELSE EmptyURN
       IN /\ Send(s, diagErrorEvent(errorURN))
          /\ Goto(s, IF reportStep THEN "post_failed" ELSE "post_end")
    /\ UNCHANGED <<inputVars, updVars, Seen, Steps, Ops, MapLock, localVars,
                   ghostVars, storeVars, cancelled, ret, walk>>

\* PostDiag, were the diagnostic tagged with the step's URN always.
PostDiagTagsStepURN(s) ==
    /\ pc[s] = "post_diag"
    /\ LET reportStep == ReportStep(reportDefaultProviderSteps, attr[s])
       IN /\ Send(s, diagErrorEvent(s))
          /\ Goto(s, IF reportStep THEN "post_failed" ELSE "post_end")
    /\ UNCHANGED <<inputVars, updVars, actsVars, localVars, ghostVars, storeVars,
                   cancelled, ret, walk>>

\* OnResourceStepPost, lines 352-359: the error diagnostic.
PostDiag(s) ==
    /\ pc[s] = "post_diag"
    /\ LET reportStep == ReportStep(reportDefaultProviderSteps, attr[s])
           errorURN == IF reportStep THEN s ELSE EmptyURN
       IN /\ Send(s, diagErrorEvent(errorURN))
          /\ Goto(s, IF reportStep THEN "post_failed" ELSE "post_end")
    /\ UNCHANGED <<inputVars, updVars, actsVars, localVars, ghostVars, storeVars,
                   cancelled, ret, walk>>

\* PostFailed, were the callback to return after reporting the failure.
PostFailedReturns(s) ==
    /\ pc[s] = "post_failed"
    /\ Send(s, resourceOperationFailedEvent(s))
    /\ ret' = [ret EXCEPT ![s].post = "nil"]
    /\ Goto(s, "posted")
    /\ UNCHANGED <<inputVars, updVars, actsVars, localVars, ghostVars, storeVars,
                   cancelled, walk>>

\* OnResourceStepPost, line 360: the resource-operation-failed event.
PostFailed(s) ==
    /\ pc[s] = "post_failed"
    /\ Send(s, resourceOperationFailedEvent(s))
    /\ Goto(s, "post_end")
    /\ UNCHANGED <<inputVars, updVars, actsVars, localVars, ghostVars, storeVars,
                   cancelled, ret, walk>>

\* PostCountLock, were the counters incremented without taking MapLock.
PostCountWithoutLock(s) ==
    /\ pc[s] = "post_count_lock"
    /\ Goto(s, "post_count")
    /\ UNCHANGED <<inputVars, updVars, actsVars, localVars, ghostVars, storeVars,
                   cancelled, events, ret, walk>>

\* OnResourceStepPost, line 365.
PostCountLock(s) ==
    /\ Lock(s, "post_count_lock", "post_count")
    /\ UNCHANGED <<inputVars, updVars, Seen, Steps, Ops, MaybeCorrupt, localVars,
                   ghostVars, storeVars, cancelled, events, ret, walk>>

\* OnResourceStepPost, lines 366-367: acts.Steps++ and acts.Ops[stepop]++
\* load the counters ...
PostCount(s) ==
    /\ pc[s] = "post_count"
    /\ tmp' = [tmp EXCEPT ![s] = [steps |-> Steps, ops |-> Ops[attr[s].op]]]
    /\ Goto(s, "post_count_store")
    /\ UNCHANGED <<inputVars, updVars, actsVars, attr, result, sawCancel,
                   ghostVars, storeVars, cancelled, events, ret, walk>>

\* ... and store them incremented; line 368 unlocks, line 374 branches.
PostCountStore(s) ==
    /\ pc[s] = "post_count_store"
    /\ Steps' = tmp[s].steps + 1
    /\ Ops' = [Ops EXCEPT ![attr[s].op] = tmp[s].ops + 1]
    /\ tmp' = [tmp EXCEPT ![s] = NoTmp]
    /\ counted' = counted \cup {s}
    /\ MapLock' = NoHolder
    /\ Goto(s, IF attr[s].custom THEN "post_outputs" ELSE "post_end")
    /\ UNCHANGED <<inputVars, updVars, Seen, MaybeCorrupt, attr, result, sawCancel,
                   applied, flagged, storeVars, cancelled, events, ret, walk>>

\* OnResourceStepPost, line 375: the outputs of a custom resource.
PostOutputs(s) ==
    /\ pc[s] = "post_outputs"
    /\ Send(s, resourceOutputsEvent(s))
    /\ Goto(s, "post_end")
    /\ UNCHANGED <<inputVars, updVars, actsVars, localVars, ghostVars, storeVars,
                   cancelled, ret, walk>>

\* OnResourceStepPost, line 382: End on the handle of OnResourceStepPre; the
\* callback returns End's result.
PostEnd(s) ==
    /\ pc[s] = "post_end"
    /\ \E failed \in BOOLEAN :
         /\ ends' = Append(ends,
                      [step |-> s,
                       keep |-> KeepNewState(result[s].status, result[s].err),
                       ok |-> ~failed])
         /\ ret' = [ret EXCEPT ![s].post = IF failed THEN "err" ELSE "nil"]
         /\ walk' = [walk EXCEPT !.failed = @ \/ failed]
    /\ Goto(s, "posted")
    /\ UNCHANGED <<inputVars, updVars, actsVars, localVars, ghostVars,
                   begins, registered, cancelled, events>>

\* The steps OnResourceOutputs has been called for.
OutputsCalled ==
    {t \in StepIds : \/ pc[t] \in {"out_assert", "out_event", "out_register"}
                     \/ ret[t].outputs # "none"}

\* OnResourceOutputs, line 386: the walker calls it for a step that was
\* applied without an error and whose post callback has returned nil (the
\* post event of a failed step is the last event of its URN).
OutLock(s) ==
    /\ walk.state = "running"
    /\ ret[s].post = "nil"
    /\ ~result[s].err
    /\ Cardinality(OutputsCalled) < MaxOutputs
    /\ Lock(s, "posted", "out_assert")
    /\ UNCHANGED <<inputVars, updVars, Seen, Steps, Ops, MaybeCorrupt, localVars,
                   ghostVars, storeVars, cancelled, events, ret, walk>>

\* OnResourceOutputs, lines 387-391.
OutAssert(s) ==
    /\ pc[s] = "out_assert"
    /\ IF assertSeen(Seen, s)
         THEN /\ MapLock' = NoHolder
              /\ Goto(s, IF ReportStep(reportDefaultProviderSteps, attr[s])
                           THEN "out_event" ELSE "out_register")
         ELSE /\ Goto(s, "panicked")
              /\ UNCHANGED MapLock
    /\ UNCHANGED <<inputVars, updVars, Seen, Steps, Ops, MaybeCorrupt, localVars,
                   ghostVars, storeVars, cancelled, events, ret, walk>>

\* OnResourceOutputs, line 392.
OutEvent(s) ==
    /\ pc[s] = "out_event"
    /\ Send(s, resourceOutputsEvent(s))
    /\ Goto(s, "out_register")
    /\ UNCHANGED <<inputVars, updVars, actsVars, localVars, ghostVars, storeVars,
                   cancelled, ret, walk>>

\* OnResourceOutputs, line 397: RegisterResourceOutputs and its result.
OutRegister(s) ==
    /\ pc[s] = "out_register"
    /\ \E failed \in BOOLEAN :
         /\ registered' = registered \cup
                            {[step |-> s, ok |-> ~failed]}
         /\ ret' = [ret EXCEPT ![s].outputs = IF failed THEN "err" ELSE "nil"]
         /\ walk' = [walk EXCEPT !.failed = @ \/ failed]
    /\ Goto(s, "done")
    /\ UNCHANGED <<inputVars, updVars, actsVars, localVars, ghostVars,
                   begins, ends, cancelled, events>>

\* ------------------------------------------------- the walker and its world
\* The steps with a callback or a provider call running.
InFlight == {s \in StepIds : pc[s] \notin {"idle", "posted", "done", "panicked"}}

\* The walker takes the plan's next step and calls OnResourceStepPre, with at
\* most Parallel steps in flight (Parallel <= 1 is serial); it dispatches
\* nothing after a callback error or a cancellation.
Dispatch(s) ==
    /\ upc = "walk"
    /\ walk.state = "running"
    /\ ~walk.failed
    /\ ~cancelled
    /\ pc[s] = "idle"
    /\ \A t \in StepIds : t < s => pc[t] # "idle"
    /\ \/ InFlight = {}
       \/ Cardinality(InFlight) < Parallel
    /\ \E a \in source[s] : attr' = [attr EXCEPT ![s] = a]
    /\ Goto(s, "pre_lock")
    /\ UNCHANGED <<inputVars, updVars, actsVars, result, sawCancel, tmp,
                   ghostVars, storeVars, cancelled, events, ret, walk>>

\* The provider applies the step and returns (status, err); the walker then
\* calls OnResourceStepPost.
Apply(s) ==
    /\ pc[s] = "apply"
    /\ \E status \in Statuses, err \in BOOLEAN :
         result' = [result EXCEPT ![s] = [status |-> status, err |-> err]]
    /\ applied' = applied \cup {s}
    /\ Goto(s, "post_lock")
    /\ UNCHANGED <<inputVars, updVars, actsVars, attr, sawCancel, tmp,
                   counted, flagged, storeVars, cancelled, events, ret, walk>>

\* Context.Cancel is signaled while the walk runs.
Cancel ==
    /\ upc = "walk"
    /\ walk.state = "running"
    /\ ~cancelled
    /\ cancelled' = TRUE
    /\ UNCHANGED <<inputVars, updVars, actsVars, localVars, ghostVars, storeVars,
                   events, pc, ret, walk>>

\* Walk fails before any step could be attempted: an error and no summary.
WalkFailEarly ==
    /\ upc = "walk"
    /\ walk.state = "running"
    /\ \A s \in StepIds : pc[s] = "idle"
    /\ walk' = [walk EXCEPT !.state = "returned", !.summaryNil = TRUE, !.err = TRUE]
    /\ UNCHANGED <<inputVars, updVars, actsVars, localVars, ghostVars, storeVars,
                   cancelled, events, pc, ret>>

\* Walk returns its summary once no step is in flight: the source is
\* exhausted or failed, a callback failed, or the update was cancelled.
WalkReturn ==
    /\ upc = "walk"
    /\ walk.state = "running"
    /\ InFlight = {}
    /\ \A s \in StepIds : pc[s] # "panicked"
    /\ \E err \in (IF walk.failed \/ cancelled THEN {TRUE} ELSE BOOLEAN) :
         walk' = [walk EXCEPT !.state = "returned", !.summaryNil = FALSE, !.err = err]
    /\ UNCHANGED <<inputVars, updVars, actsVars, localVars, ghostVars, storeVars,
                   cancelled, events, pc, ret>>

OnResourceStepPre ==
    \/ \E s \in StepIds : PreLock(s)
    \/ \E s \in StepIds : PreSeen(s)
    \/ \E s \in StepIds : PreEvent(s)
    \/ \E s \in StepIds : PreWarn(s)
    \/ \E s \in StepIds : PreBegin(s)

OnResourceStepPost ==
    \/ \E s \in StepIds : PostLock(s)
    \/ \E s \in StepIds : PostAssert(s)
    \/ \E s \in StepIds : PostCheck(s)
    \/ \E s \in StepIds : PostCorrupt(s)
    \/ \E s \in StepIds : PostDiag(s)
    \/ \E s \in StepIds : PostFailed(s)
    \/ \E s \in StepIds : PostCountLock(s)
    \/ \E s \in StepIds : PostCount(s)
    \/ \E s \in StepIds : PostCountStore(s)
    \/ \E s \in StepIds : PostOutputs(s)
    \/ \E s \in StepIds : PostEnd(s)

OnResourceOutputs ==
    \/ \E s \in StepIds : OutLock(s)
    \/ \E s \in StepIds : OutAssert(s)
    \/ \E s \in StepIds : OutEvent(s)
    \/ \E s \in StepIds : OutRegister(s)

Update ==
    \/ UpdateRequire \/ UpdatePlanContext \/ updatePlan \/ updateChdir
    \/ updatePrintPlan \/ updatePrelude \/ updateSummary \/ UpdateDeferred

Walk ==
    \/ WalkFailEarly \/ WalkReturn \/ Cancel
    \/ \E s \in StepIds : Dispatch(s)
    \/ \E s \in StepIds : Apply(s)

Next ==
    Update \/ Walk \/ OnResourceStepPre \/ OnResourceStepPost \/ OnResourceOutputs

Spec == Init /\ [][Next]_vars

\* ------------------------------------------------ further specifications
\* A plan of one step whose attributes are any the callbacks can read,
\* walked serially by a call of Update whose arguments are not nil.
InitStep ==
    /\ uNil = FALSE
    /\ ctxNil = FALSE
    /\ dryRun \in BOOLEAN
    /\ reportDefaultProviderSteps \in BOOLEAN
    /\ InitWith(<<StepAttrs>>, 1)

SpecStep == InitStep /\ [][Next]_vars

\* The steps of the serial end-to-end scenario: Create(A), Update(B) whose old
\* state records 2 init errors, and Same(C), whose old state records init
\* errors or none; all Logical, custom, no default provider.
ScenarioStep(op, n) ==
    [op |-> op, logical |-> TRUE, custom |-> TRUE, defaultProvider |-> FALSE,
     initErrors |-> n]
ScenarioSource ==
    << {ScenarioStep(OpCreate, 0)},
       {ScenarioStep(OpUpdate, 2)},
       {ScenarioStep(OpSame, 0), ScenarioStep(OpSame, MaxInitErrors)} >>

InitScenario ==
    /\ uNil = FALSE
    /\ ctxNil = FALSE
    /\ dryRun \in BOOLEAN
    /\ reportDefaultProviderSteps = FALSE
    /\ InitWith(ScenarioSource, 1)

SpecScenario == InitScenario /\ [][Next]_vars

\* A walker that breaks its ordering: it calls OnResourceStepPost for a step
\* it never called OnResourceStepPre for.
PostBeforePre(s) ==
    /\ upc = "walk"
    /\ walk.state = "running"
    /\ pc[s] = "idle"
    /\ \E a \in source[s] : attr' = [attr EXCEPT ![s] = a]
    /\ \E status \in Statuses, err \in BOOLEAN :
         result' = [result EXCEPT ![s] = [status |-> status, err |-> err]]
    /\ Goto(s, "post_lock")
    /\ UNCHANGED <<inputVars, updVars, actsVars, sawCancel, tmp,
                   ghostVars, storeVars, cancelled, events, ret, walk>>

\* A walker that breaks its ordering: it calls OnResourceOutputs for a step
\* it never called OnResourceStepPre for.
OutputsBeforePre(s) ==
    /\ upc = "walk"
    /\ walk.state = "running"
    /\ Cardinality(OutputsCalled) < MaxOutputs
    /\ \E a \in source[s] : attr' = [attr EXCEPT ![s] = a]
    /\ Lock(s, "idle", "out_assert")
    /\ UNCHANGED <<inputVars, updVars, Seen, Steps, Ops, MaybeCorrupt, result,
                   sawCancel, tmp, ghostVars, storeVars, cancelled, events, ret,
                   walk>>

NextFuzz ==
    \/ Next
    \/ \E s \in StepIds : PostBeforePre(s)
    \/ \E s \in StepIds : OutputsBeforePre(s)

SpecFuzz == Init /\ [][NextFuzz]_vars

\* ------------------------------------------------------------ properties
\* The events of type ty that goroutine g has sent.
EventsOf(g, ty) == {i \in 1..Len(events[g]) : events[g][i].type = ty}

\* The End calls made for step s.
EndsOf(s) == {i \in 1..Len(ends) : ends[i].step = s}

\* OnResourceStepPost of step s has returned.
PostReturned(s) == ret[s].post # "none"

\* OnResourceOutputs of step s has sent its resource-outputs event.
OutputsSent(s) ==
    /\ ReportStep(reportDefaultProviderSteps, attr[s])
    /\ pc[s] = "out_register" \/ ret[s].outputs # "none"

\* C1: every OnResourceStepPost that runs while cancellation is not signaled
\* ends the step's mutation, and the keep it passes is true for a nil error
\* with any status and for (PartialFailure, error), false for (OK, error) and
\* (Unknown, error).
C1_KeepPolicy ==
    /\ \A s \in StepIds :
         PostReturned(s) /\ ~sawCancel[s] => EndsOf(s) # {}
    /\ \A i \in 1..Len(ends) :
         LET r == result[ends[i].step]
         IN CASE ~r.err -> ends[i].keep = TRUE
              [] r.err /\ r.status = StatusPartialFailure -> ends[i].keep = TRUE
              [] r.err /\ r.status = StatusOK -> ends[i].keep = FALSE
              [] r.err /\ r.status = StatusUnknown -> ends[i].keep = FALSE

\* A Delete whose provider result is (Unknown, error) has been committed with
\* keep = false.
C1_Witness ==
    \E i \in 1..Len(ends) :
        /\ attr[ends[i].step].op = OpDelete
        /\ result[ends[i].step] = [status |-> StatusUnknown, err |-> TRUE]
        /\ ends[i].keep = FALSE

\* C2: a post callback that finds cancellation signaled makes no End call,
\* increments neither Steps nor Ops, leaves MaybeCorrupt alone, sends no
\* diagnostic, resource-outputs or resource-operation-failed event, and
\* returns nil, whatever the provider result.
C2_CancelledPostDoesNothing ==
    \A s \in StepIds :
        sawCancel[s] =>
            /\ ret[s].post = "nil"
            /\ pc[s] \in {"posted", "out_assert", "out_event", "out_register", "done"}
            /\ EndsOf(s) = {}
            /\ s \notin counted
            /\ s \notin flagged
            /\ EventsOf(s, "diag-error") = {}
            /\ EventsOf(s, "resource-operation-failed") = {}
            /\ Cardinality(EventsOf(s, "resource-outputs"))
                 = (IF OutputsSent(s) THEN 1 ELSE 0)

\* Two posts found cancellation signaled: one of a step that failed with
\* (Unknown, error), one of a step that succeeded.
C2_Witness ==
    \E s, t \in StepIds :
        /\ sawCancel[s] /\ sawCancel[t]
        /\ result[s] = [status |-> StatusUnknown, err |-> TRUE]
        /\ ~result[t].err /\ attr[t].logical /\ attr[t].custom
        /\ PostReturned(s) /\ PostReturned(t)

\* C3 as stated: every handle BeginMutation returned is ended exactly once by
\* the time the step's post callback has returned.
C3_Original ==
    \A s \in StepIds :
        ret[s].pre = "handle" /\ PostReturned(s) => Cardinality(EndsOf(s)) = 1

\* C3, amended: End is called only on a handle BeginMutation returned, at
\* most once; once the post callback has returned the handle has been ended
\* exactly once, after a success and after a failure alike, unless the
\* callback found cancellation signaled: then it is never ended.
C3_HandleConsumedOnce ==
    \A s \in StepIds :
        /\ EndsOf(s) # {} => ret[s].pre = "handle"
        /\ Cardinality(EndsOf(s)) <= 1
        /\ PostReturned(s) =>
             Cardinality(EndsOf(s)) = (IF sawCancel[s] THEN 0 ELSE 1)
        /\ EndsOf(s) # {} => PostReturned(s)

\* Both a failed and a succeeded step have returned from their post callback
\* with their handle ended.
C3_Witness ==
    \E s, t \in StepIds :
        /\ PostReturned(s) /\ PostReturned(t)
        /\ result[s].err /\ ~result[t].err
        /\ EndsOf(s) # {} /\ EndsOf(t) # {}

\* The steps of kind k whose checkpoint commit succeeded.
Committed(k) ==
    {s \in StepIds : attr[s].op = k /\ \E i \in EndsOf(s) : ends[i].ok}

\* C4: the ResourceChanges Update returns count no step whose End call
\* returned an error.
C4_FailedCommitNotCounted ==
    returned.done /\ ~returned.changes.isNil /\ returned.via = "summary" =>
        \A k \in OpKinds : returned.changes.ops[k] <= Cardinality(Committed(k))

\* The value of the corruption flag the results of the posts call for: some
\* post has passed its cancellation check unsignaled and executed line 349
\* for a result with an error and status Unknown.
CorruptingPostRan ==
    \E s \in StepIds :
        /\ result[s] = [status |-> StatusUnknown, err |-> TRUE]
        /\ ~sawCancel[s]
        /\ pc[s] \in {"post_diag", "post_failed", "post_end"} \/ PostReturned(s)

\* C5: MaybeCorrupt is true iff some post callback has run, unsignaled, for
\* a result with an error and status Unknown, and the update-summary event
\* carries that value.
C5_CorruptIffUnknownError ==
    /\ MaybeCorrupt = CorruptingPostRan
    /\ \A i \in EventsOf(UpdateCall, "update-summary") :
         events[UpdateCall][i].corrupt = CorruptingPostRan

\* The summary carries a set flag, while another step returned (Unknown, nil)
\* or an error with a known status.
C5_Witness ==
    /\ \E i \in EventsOf(UpdateCall, "update-summary") : events[UpdateCall][i].corrupt
    /\ \E t \in StepIds :
         /\ PostReturned(t) /\ ~sawCancel[t]
         /\ result[t] \in {[status |-> StatusUnknown, err |-> FALSE],
                           [status |-> StatusOK, err |-> TRUE],
                           [status |-> StatusPartialFailure, err |-> TRUE]}

\* C6: once MaybeCorrupt is true it stays true, whatever callback runs next.
C6_CorruptSticky == [][MaybeCorrupt => MaybeCorrupt']_vars

\* The flag is set and a step that began after it was set has succeeded and
\* been counted and committed.
C6_Witness ==
    /\ MaybeCorrupt
    /\ \E i, j \in 1..Len(ends) :
         /\ i < j
         /\ ends[i].step \in flagged
         /\ ends[j].step \in counted
         /\ ends[j].ok

\* C7 as stated: every call of Update, a precondition failure included, ends
\* with exactly one cancel event sent.
C7_Original ==
    upc \in {"done", "panicked"} => Cardinality(EventsOf(UpdateCall, "cancel")) = 1

\* C7, amended: a call whose arguments are not nil cannot stop before it has
\* sent the cancel event, sends it exactly once on every exit path, and sends
\* it last: no callback is running and nothing is sent once it is out. A call
\* with a nil argument panics before the send is deferred and sends nothing.
C7_CancelEventLast ==
    /\ upc \notin {"done", "panicked"} => ENABLED Next
    /\ upc = "panicked" =>
         /\ uNil \/ ctxNil
         /\ \A g \in DOMAIN events : events[g] = << >>
    /\ upc = "done" =>
         /\ ~uNil /\ ~ctxNil
         /\ Cardinality(EventsOf(UpdateCall, "cancel")) = 1
    /\ CancelSent =>
         /\ upc = "done"
         /\ events[UpdateCall][Len(events[UpdateCall])].type = "cancel"
         /\ InFlight = {}
         /\ ~ENABLED Next

\* A walk failed with a summary, and the update has ended with its summary
\* and then its cancel event.
C7_Witness ==
    /\ upc = "done"
    /\ returned.via = "summary" /\ returned.err
    /\ EventsOf(UpdateCall, "update-summary") # {}
    /\ CancelSent

\* C8 as stated: once cancellation is signaled, no End, no
\* RegisterResourceOutputs, no increment of Steps or Ops and no write of
\* MaybeCorrupt happens.
C8_Original ==
    [][cancelled =>
         /\ ends' = ends
         /\ registered' = registered
         /\ Steps' = Steps /\ Ops' = Ops
         /\ flagged' = flagged]_vars

\* The post callbacks that passed their cancellation check unsignaled and
\* have not returned.
PastCheck ==
    {s \in StepIds :
        /\ ~sawCancel[s]
        /\ pc[s] \in {"post_corrupt", "post_diag", "post_failed", "post_count_lock",
                      "post_count", "post_count_store", "post_outputs", "post_end"}}

\* C8, amended: once cancellation is signaled, an End call, an increment of
\* Steps or Ops and a write of MaybeCorrupt come only from a post callback
\* that had passed its cancellation check before the signal, and a
\* RegisterResourceOutputs call only from OnResourceOutputs, which does not
\* check for cancellation; a post callback whose check follows the signal
\* writes nothing.
C8_NoWriteAfterObservedCancel ==
    [][cancelled =>
         /\ (ends' # ends \/ Steps' # Steps \/ Ops' # Ops \/ flagged' # flagged) =>
               \E s \in PastCheck : pc'[s] # pc[s]
         /\ registered' # registered =>
               \E s \in StepIds : pc[s] = "out_register" /\ pc'[s] = "done"
         /\ \A s \in StepIds :
               pc[s] = "post_check" /\ pc'[s] # pc[s] =>
                  /\ pc'[s] = "posted"
                  /\ UNCHANGED <<ends, registered, Steps, Ops, MaybeCorrupt, flagged>>]_vars

\* Cancellation was signaled while a post callback was past its check, and
\* that callback has ended its mutation since, while another post callback
\* found the signal.
C8_Witness ==
    /\ cancelled
    /\ \E s, t \in StepIds :
         /\ sawCancel[s]
         /\ ~sawCancel[t] /\ PostReturned(t) /\ EndsOf(t) # {}
         /\ EndsOf(s) = {}

C10_ErrorPolicy ==
    ~dryRun /\ returned.done /\ ~returned.panic =>
        /\ returned.via \in {"plan", "noSummary"} =>
             /\ returned.err
             /\ returned.changes.isNil
             /\ EventsOf(UpdateCall, "update-summary") = {}
        /\ returned.via = "plan" => walk.state = "idle"
        /\ walk.state = "returned" /\ walk.summaryNil => returned.via = "noSummary"
        /\ walk.state = "returned" /\ ~walk.summaryNil =>
             /\ returned.via = "summary"
             /\ Cardinality(EventsOf(UpdateCall, "update-summary")) = 1
             /\ \A i \in EventsOf(UpdateCall, "update-summary") :
                  events[UpdateCall][i].changes = ChangesOf(Ops)
             /\ returned.changes = ChangesOf(Ops)
             /\ returned.err = walk.err

\* A walk returned a summary and an error, and update returned the error
\* with the changes counted before it.
C10_Witness ==
    /\ ~dryRun /\ returned.done
    /\ returned.via = "summary"
    /\ returned.err
    /\ \E k \in OpKinds : returned.changes.ops[k] > 0

\* The resource-pre, resource-outputs and resource-operation-failed events
\* that the callbacks of step s have sent.
ResourceEvents(s) ==
    {i \in 1..Len(events[s]) :
        events[s][i].type \in {"resource-pre", "resource-outputs",
                               "resource-operation-failed"}}

\* Step s is a default-provider step and default-provider reporting is off.
Suppressed(s) == attr[s].defaultProvider /\ ~reportDefaultProviderSteps

\* C11 as stated: with default-provider reporting disabled, a default-provider
\* step that succeeded and is Logical is counted in Steps and Ops.
C11_Original ==
    \A s \in StepIds :
        /\ Suppressed(s) /\ PostReturned(s) /\ ~sawCancel[s]
        /\ ~result[s].err /\ attr[s].logical
        => /\ s \in counted
           /\ Ops[attr[s].op] > 0

\* C11, amended: with default-provider reporting disabled, a default-provider
\* step sends no resource-pre, resource-outputs or resource-operation-failed
\* event from any of the three callbacks; its mutation is begun by
\* OnResourceStepPre and ended exactly once by every OnResourceStepPost that
\* does not find cancellation signaled; and it is never counted in Steps or
\* Ops, Logical or not.
C11_SuppressedStepSilentAndUncounted ==
    \A s \in StepIds :
        Suppressed(s) =>
            /\ ResourceEvents(s) = {}
            /\ ret[s].pre # "none" => s \in begins
            /\ PostReturned(s) /\ ~sawCancel[s] => Cardinality(EndsOf(s)) = 1
            /\ s \notin counted
            /\ Ops[attr[s].op] = Cardinality({t \in counted : attr[t].op = attr[s].op})

\* A Logical default-provider step has succeeded with reporting disabled: its
\* mutation was begun and committed, OnResourceOutputs has run for it, and
\* it has sent nothing.
C11_Witness ==
    \E s \in StepIds :
        /\ Suppressed(s) /\ attr[s].logical /\ attr[s].custom
        /\ ~result[s].err /\ ~sawCancel[s]
        /\ s \in begins
        /\ \E i \in EndsOf(s) : ends[i].ok /\ ends[i].keep
        /\ ret[s].outputs = "nil"
        /\ events[s] = << >>

\* C12: the resource events of a URN come in the order resource-pre, then
\* resource-outputs events, then the resource-operation-failed event of a
\* failed step: the resource-pre event comes once and before every other
\* resource event of its URN, and the resource-operation-failed event comes
\* at most once, only for a failed step, and with no resource event of the
\* URN after it, however the callbacks of other URNs interleave.
C12_PerUrnEventOrder ==
    \A s \in StepIds :
        /\ Cardinality(EventsOf(s, "resource-pre")) <= 1
        /\ Cardinality(EventsOf(s, "resource-operation-failed")) <= 1
        /\ \A i \in ResourceEvents(s) :
             /\ events[s][i].urn = s
             /\ events[s][i].type # "resource-pre" =>
                  \E j \in EventsOf(s, "resource-pre") : j < i
             /\ events[s][i].type = "resource-operation-failed" =>
                  /\ result[s].err
                  /\ \A j \in ResourceEvents(s) : j <= i

\* Two steps are in flight at once: one has sent its resource-pre event and
\* two resource-outputs events (from its post and from OnResourceOutputs),
\* the other its resource-pre and its resource-operation-failed event.
C12_Witness ==
    \E s, t \in StepIds :
        /\ pc[s] = "out_register" /\ pc[t] = "post_end"
        /\ Cardinality(EventsOf(s, "resource-outputs")) = 2
        /\ EventsOf(s, "resource-pre") # {}
        /\ EventsOf(t, "resource-pre") # {}
        /\ EventsOf(t, "resource-operation-failed") # {}

\* The serial scenario has run to its end: Create(A), Update(B) with init
\* errors recorded in its old state and Same(C) with none were each applied
\* with the result (OK, nil), cancellation was never signaled, every snapshot
\* store call succeeded, and Update has returned.
ScenarioRun ==
    /\ upc = "done" /\ ~dryRun /\ ~cancelled
    /\ Parallel = 1
    /\ attr = [s \in StepIds |->
                  CASE s = 1 -> ScenarioStep(OpCreate, 0)
                    [] s = 2 -> ScenarioStep(OpUpdate, 2)
                    [] OTHER -> ScenarioStep(OpSame, 0)]
    /\ \A s \in StepIds :
         /\ s \in applied
         /\ result[s] = [status |-> StatusOK, err |-> FALSE]
         /\ ret[s].pre = "handle" /\ ret[s].post = "nil"
         /\ ret[s].outputs # "err"

\* The outcome of the scenario apart from its diagnostics: the counts, the
\* corruption flag, and three successful commits in the order A, B, C.
ScenarioOutcome ==
    /\ Ops = [EmptyOps EXCEPT ![OpCreate] = 1, ![OpUpdate] = 1, ![OpSame] = 1]
    /\ Steps = 3
    /\ returned.changes = ChangesOf(Ops)
    /\ HasChanges(returned.changes)
    /\ ~MaybeCorrupt
    /\ \A i \in EventsOf(UpdateCall, "update-summary") :
         ~events[UpdateCall][i].corrupt
    /\ ends = [i \in 1..3 |-> [step |-> i, keep |-> TRUE, ok |-> TRUE]]

\* C13 as stated: the scenario emits a warning diagnostic for B that lists
\* exactly 2 problems, and ends with Ops = {Create: 1, Update: 1, Same: 1},
\* HasChanges() true, MaybeCorrupt false and three commits in order A, B, C.
C13_Original ==
    ScenarioRun =>
        /\ \E i \in EventsOf(2, "diag-warning") : Len(events[2][i].problems) = 2
        /\ ScenarioOutcome

\* C13, amended: the scenario emits no warning diagnostic at all (B is
\* updated, and the warning is for a Same step only), and ends with
\* Ops = {Create: 1, Update: 1, Same: 1}, HasChanges() true, MaybeCorrupt false
\* and three successful commits in the order A, B, C.
C13_ScenarioWithoutWarning ==
    ScenarioRun =>
        /\ \A g \in DOMAIN events : EventsOf(g, "diag-warning") = {}
        /\ ScenarioOutcome

\* The scenario has run to its end and the summary event has been sent.
C13_Witness ==
    /\ ScenarioRun
    /\ returned.via = "summary" /\ ~returned.err
    /\ EventsOf(UpdateCall, "update-summary") # {}
    /\ Len(ends) = 3

\* C14: HasChanges() of the ResourceChanges built from Ops is true iff some
\* counted step has a kind other than Same, that is iff the counts of the
\* kinds other than Same sum to more than zero; the changes Update returns
\* with a summary are those, and nil changes have HasChanges() false.
C14_HasChangesIffNonSameCounted ==
    /\ HasChanges(ChangesOf(Ops)) <=> \E s \in counted : attr[s].op # OpSame
    /\ HasChanges(ChangesOf(Ops)) <=> Ops[OpCreate] + Ops[OpUpdate] + Ops[OpDelete] > 0
    /\ counted = {} => ~HasChanges(ChangesOf(Ops))
    /\ returned.done /\ returned.via = "summary" =>
         (HasChanges(returned.changes) <=> \E s \in counted : attr[s].op # OpSame)
    /\ returned.changes.isNil => ~HasChanges(returned.changes)

\* Update has returned a summary that counts two Same steps and nothing
\* else, and HasChanges() is false of it.
C14_Witness ==
    /\ returned.done /\ returned.via = "summary"
    /\ returned.changes.ops[OpSame] = 2
    /\ ~HasChanges(returned.changes)

\* C15: a call of Update with a nil update or a nil context panics in its
\* precondition checks and does nothing else: it never gets past them, so no
\* plan context is created and no plan is made; no event of any type is
\* sent; no BeginMutation, End or RegisterResourceOutputs call is made; no
\* callback and no provider call runs; and what it ends in is the
\* precondition failure.
C15_NilArgumentFailsFirst ==
    uNil \/ ctxNil =>
        /\ upc \in {"start", "panicked"}
        /\ upc = "panicked" => returned = Panicked("Require")
        /\ \A g \in DOMAIN events : events[g] = << >>
        /\ begins = {} /\ ends = << >> /\ registered = {}
        /\ applied = {}
        /\ \A s \in StepIds : pc[s] = "idle"
        /\ walk = WalkIdle
        /\ Seen = {} /\ Steps = 0 /\ Ops = EmptyOps /\ ~MaybeCorrupt

\* Update was called with an update and a nil context, and has panicked.
C15_Witness ==
    /\ ~uNil /\ ctxNil
    /\ upc = "panicked"
    /\ returned.panic

\* The sum of all Ops counts.
SumOps == Ops[OpSame] + Ops[OpCreate] + Ops[OpUpdate] + Ops[OpDelete]

\* OnResourceStepPost of step s is running.
PostRunning(s) ==
    pc[s] \in {"post_lock", "post_assert", "post_check", "post_corrupt",
               "post_diag", "post_failed", "post_count_lock", "post_count",
               "post_count_store", "post_outputs", "post_end"}

\* The post callback of step s has returned, and it ran with cancellation not
\* signaled at its check, a nil error, a reportable step and Logical() true.
CountablePost(s) ==
    /\ PostReturned(s) /\ ~sawCancel[s]
    /\ ~result[s].err
    /\ reportDefaultProviderSteps \/ ~attr[s].defaultProvider
    /\ attr[s].logical

\* C16: no update of Steps or Ops is lost: whenever no post callback is
\* running, Ops[k] is the number of posts of kind k that ran with cancellation
\* not signaled, a nil error, a reportable step and Logical() true; whenever
\* MapLock is free, Steps is the sum of all Ops counts; and a post with an
\* error or a step that is not Logical never incremented Steps or Ops.
C16_NoLostUpdates ==
    /\ (\A s \in StepIds : ~PostRunning(s)) =>
          \A k \in OpKinds :
              Ops[k] = Cardinality({s \in StepIds : attr[s].op = k /\ CountablePost(s)})
    /\ MapLock = NoHolder => Steps = SumOps
    /\ MapLock = NoHolder => Steps = Cardinality(counted)
    /\ \A s \in counted : ~result[s].err /\ attr[s].logical

\* Two post callbacks of the same kind run at once: one has stored its
\* increments and is still running, the other has loaded the counters after
\* it and is about to store.
C16_Witness ==
    \E s, t \in StepIds :
        /\ s # t /\ attr[s].op = attr[t].op
        /\ s \in counted /\ pc[s] \in {"post_outputs", "post_end"}
        /\ pc[t] = "post_count_store"
        /\ tmp[t] = [steps |-> 1, ops |-> 1]

\* C17: a post callback that does not find cancellation signaled and is
\* handed an error sends one error diagnostic, tagged with the step's URN, or
\* with the empty URN for a suppressed default-provider step; sends one
\* resource-operation-failed event iff the step is reportable; counts
\* nothing; calls End once; and returns what End returned, nil when the commit
\* succeeded. The walk fails only on an error a callback returned, never on
\* the provider's error alone.
C17_StepErrorRecoveredLocally ==
    /\ \A s \in StepIds :
         PostReturned(s) /\ ~sawCancel[s] /\ result[s].err =>
             LET reportable == reportDefaultProviderSteps \/ ~attr[s].defaultProvider
             IN /\ Cardinality(EventsOf(s, "diag-error")) = 1
                /\ \A i \in EventsOf(s, "diag-error") :
                     events[s][i].urn = (IF reportable THEN s ELSE EmptyURN)
                /\ Cardinality(EventsOf(s, "resource-operation-failed"))
                     = (IF reportable THEN 1 ELSE 0)
                /\ EventsOf(s, "resource-outputs") = {}
                /\ s \notin counted
                /\ Cardinality(EndsOf(s)) = 1
                /\ \A i \in EndsOf(s) :
                     ret[s].post = (IF ends[i].ok THEN "nil" ELSE "err")
    /\ walk.failed =>
         \E s \in StepIds :
             ret[s].pre = "err" \/ ret[s].post = "err" \/ ret[s].outputs = "err"

\* The first step failed as a suppressed default-provider step: its error
\* diagnostic carries the empty URN, its commit succeeded and its post
\* returned nil; the second step was committed after it, and the walk has
\* not failed.
C17_Witness ==
    /\ ~walk.failed
    /\ Len(ends) = 2 /\ ends[1].step = 1 /\ ends[1].ok /\ ends[2].step = 2
    /\ result[1].err /\ ~sawCancel[1] /\ ret[1].post = "nil"
    /\ attr[1].defaultProvider /\ ~reportDefaultProviderSteps
    /\ \E i \in EventsOf(1, "diag-error") : events[1][i].urn = EmptyURN
    /\ ~result[2].err

\* The positions of a callback between MapLock.Lock() and MapLock.Unlock().
CriticalSection == {"pre_seen", "post_assert", "post_count", "post_count_store",
                    "out_assert"}

\* The positions of a step inside a blocking call: an event send, a
\* diagnostic, BeginMutation, the provider's apply, End,
\* RegisterResourceOutputs.
BlockingCall == {"pre_event", "pre_warn", "pre_begin", "apply", "post_diag",
                 "post_failed", "post_outputs", "post_end", "out_event",
                 "out_register"}

\* C18: MapLock is held by at most one callback at a time, exactly while that
\* callback is between Lock and Unlock, and by no callback that is inside an
\* event send, a diagnostic, BeginMutation, End or RegisterResourceOutputs, or
\* waiting for the provider: while callbacks are blocked there and none is
\* between Lock and Unlock, the lock is free for any other callback.
C18_LockNotHeldAcrossBlockingCalls ==
    /\ Cardinality({s \in StepIds : pc[s] \in CriticalSection}) <= 1
    /\ \A s \in StepIds : MapLock = s <=> pc[s] \in CriticalSection
    /\ \A s \in StepIds : pc[s] \in BlockingCall => MapLock # s
    /\ (\A s \in StepIds : pc[s] \notin CriticalSection) => MapLock = NoHolder

\* One callback is inside End while another holds the lock and increments
\* the counters.
C18_Witness ==
    \E s, t \in StepIds :
        /\ pc[s] = "post_end"
        /\ pc[t] = "post_count_store"
        /\ MapLock = t

\* OnResourceStepPost or OnResourceOutputs of step s has passed its
\* assertSeen assertion.
PassedAssertSeen(s) ==
    \/ pc[s] \in {"post_check", "post_corrupt", "post_diag", "post_failed",
                  "post_count_lock", "post_count", "post_count_store",
                  "post_outputs", "post_end", "out_event", "out_register"}
    \/ PostReturned(s)
    \/ ret[s].outputs # "none"

\* The state part of C19.
SeenBeforeEffects ==
    \A s \in StepIds :
        /\ events[s] # << >> \/ s \in begins \/ ret[s].pre # "none" => s \in Seen
        /\ pc[s] \in {"pre_event", "pre_warn", "pre_begin", "apply"} => s \in Seen
        /\ PassedAssertSeen(s) => s \in Seen /\ ret[s].pre # "none"
        /\ pc[s] = "panicked" =>
             /\ s \notin Seen
             /\ ret[s].pre = "none" /\ s \notin begins /\ events[s] = << >>

\* C19: OnResourceStepPre records the step's URN in Seen before it sends an
\* event or calls BeginMutation, also when BeginMutation fails; no entry of
\* Seen is ever removed; so the assertSeen assertion of a post or outputs
\* callback that follows the URN's OnResourceStepPre holds under every
\* interleaving, and it fails only in a post or outputs callback called for
\* a URN whose OnResourceStepPre never ran.
C19_RegistryPresence ==
    /\ []SeenBeforeEffects
    /\ [][Seen \subseteq Seen']_vars

\* The walker called a post or outputs callback for a URN with no
\* OnResourceStepPre and the assertion failed, after the post callback of
\* another step, which followed its OnResourceStepPre, had passed it.
C19_Witness ==
    \E s, t \in StepIds :
        /\ pc[s] = "panicked" /\ s \notin Seen
        /\ PostReturned(t) /\ ret[t].pre = "handle" /\ t \in Seen

\* OnResourceStepPre of step s is past the place of its warning.
PastWarning(s) == pc[s] = "pre_begin" \/ ret[s].pre # "none"

\* C20: OnResourceStepPre sends the initialization-failure warning iff the
\* step is reportable, its operation is Same and its old state records at
\* least one init error; the warning lists one problem per recorded init
\* error, numbered 1..n in the recorded order; and it is sent right after the
\* step's resource-pre event and before BeginMutation is called.
C20_InitErrorWarning ==
    \A s \in StepIds :
        LET n == attr[s].initErrors
            warned == /\ reportDefaultProviderSteps \/ ~attr[s].defaultProvider
                      /\ attr[s].op = OpSame
                      /\ n > 0
        IN /\ PastWarning(s) =>
                Cardinality(EventsOf(s, "diag-warning")) = (IF warned THEN 1 ELSE 0)
           /\ \A i \in EventsOf(s, "diag-warning") :
                /\ warned
                /\ i = 2 /\ events[s][1] = resourcePreEvent(s)
                /\ events[s][i].urn = s
                /\ events[s][i].problems = [j \in 1..n |-> <<j, InitErrorsOf(n)[j]>>]
           /\ pc[s] \in {"pre_lock", "pre_seen", "pre_event", "pre_warn", "pre_begin"}
                => s \notin begins

\* A Same step whose old state records the most init errors has been warned
\* about, and BeginMutation has been called for it since.
C20_Witness ==
    \E s \in StepIds :
        /\ attr[s].op = OpSame /\ attr[s].initErrors = MaxInitErrors
        /\ \E i \in EventsOf(s, "diag-warning") :
             Len(events[s][i].problems) = MaxInitErrors
        /\ s \in begins

=============================================================================
